---- MODULE Spec2Model ----
(***************************************************************************)
(* MusicCard (src/src/App.tsx, lines 39-292): the widget's six state cells, *)
(* its three effects and its handlers, composed with the playback handle   *)
(* (the <audio> element of line 157) whose events drive the listeners      *)
(* bound in the first effect.  Times are whole seconds.                    *)
(***************************************************************************)
EXTENDS Integers, Sequences, FiniteSets

\* ---- bounds of the model -------------------------------------------------
\* width in pixels of the progress track (rect.width); pointer offsets 0..Width
Width == 2
\* the long track lasts Width * LongUnits seconds, the short one Width seconds,
\* so that (x / width) * duration is a whole number for every pointer offset
LongUnits == 6
\* most event tasks waiting in the handle's event task queue
MaxQueue == 2

\* ---- program constants ---------------------------------------------------
SkipSeconds == 10
DefaultVolume == 75
MaxVolume == 100

\* audio.duration before the metadata is known (NaN in the source)
NaN == 0 - 1

\* the resource the shell passes (App, line 29) and another one a parent may pass
InitialSrc == "trackA"
Srcs == {InitialSrc, "trackB"}
Volumes == {DefaultVolume, MaxVolume}
EventKinds == {"timeupdate", "loadedmetadata", "ended", "loadstart", "canplay"}

DurationOf(src) == IF src = InitialSrc THEN Width * LongUnits ELSE Width

Min(a, b) == IF a < b THEN a ELSE b
Max(a, b) == IF a > b THEN a ELSE b

VARIABLES
  phase,        \* "init" | "mounted" | "unmounted"
  audioSrc,     \* prop audioSrc
  isPlaying, currentTime, duration, volume, isLiked, isLoading,
  audio,        \* the playback handle: readyState, currentTime, duration, paused, volume
  pendingPlay,  \* play() promises neither resolved nor rejected
  evq,          \* the handle's queued event tasks, oldest first
  listeners,    \* attached listeners: <<event kind, closure generation>>
  gen,          \* generation of the closures made by the last run of the first effect
  lastOp,       \* the operation of the last step
  lastArg,      \* its input (pointer offset of a click), else 0
  issued,       \* play/pause command issued by the last step, else "none"
  lastCmd,      \* the last play/pause command sent to the handle
  seekTo,       \* value the last step assigned to audio.currentTime, else NaN
  deliveries,   \* listeners invoked by the last step
  sinceLoad,    \* what happened since the last handled loadstart; {"idle"} when not loading
  readyFresh    \* a canplay ended the loading state and the toggle was not operated since

widget == <<isPlaying, currentTime, duration, volume, isLiked, isLoading>>
vars == <<phase, audioSrc, isPlaying, currentTime, duration, volume, isLiked, isLoading,
          audio, pendingPlay, evq, listeners, gen, lastOp, lastArg, issued, lastCmd,
          seekTo, deliveries, sinceLoad, readyFresh>>

\* ---- the playback handle -------------------------------------------------
NewElement == [readyState |-> "nothing", currentTime |-> 0, duration |-> NaN,
               paused |-> TRUE, volume |-> MaxVolume]

EndedPlayback(a) == a.readyState # "nothing" /\ a.currentTime = a.duration

\* events of a seek that lands on position t of a resource lasting d
SeekEvents(t, d) == IF t = d THEN <<"timeupdate", "ended">> ELSE <<"timeupdate">>

\* audio.currentTime = t
SetCurrentTime(a, t) ==
  IF a.readyState = "nothing"
    THEN [a |-> [a EXCEPT !.currentTime = t], ev |-> <<>>]
    ELSE LET c == Max(0, Min(t, a.duration))
         IN [a |-> [a EXCEPT !.currentTime = c,
                             !.paused = IF c = a.duration THEN TRUE ELSE a.paused],
             ev |-> SeekEvents(c, a.duration)]

\* audio.play(): pend is the number of promises left pending afterwards
AudioPlay(a, pend) ==
  LET rewound == IF EndedPlayback(a) THEN [a EXCEPT !.currentTime = 0] ELSE a
  IN [a |-> [rewound EXCEPT !.paused = FALSE],
      ev |-> IF EndedPlayback(a) THEN <<"timeupdate">> ELSE <<>>,
      pend |-> IF a.readyState = "future" THEN pend ELSE pend + 1]

\* audio.pause()
AudioPause(a, pend) ==
  IF a.paused
    THEN [a |-> a, ev |-> <<>>, pend |-> pend]
    ELSE [a |-> [a EXCEPT !.paused = TRUE],
          ev |-> IF pend > 0 THEN <<"timeupdate", "rejectplay">> ELSE <<"timeupdate">>,
          pend |-> 0]

\* ---- the effects ----------------------------------------------------------
Attach(g) == {<<k, g>> : k \in EventKinds}

\* a cleanup that removes nothing
Cleanup_Leaky(ls, g) == ls

\* the cleanup returned by the first effect: removes the five closures of run g
Cleanup(ls, g) == ls \ Attach(g)

\* useEffect(..., [audioSrc]): cleanup of the previous run, then a fresh run
Subscribe ==
  /\ listeners' = Cleanup(listeners, gen) \cup Attach(1 - gen)
  /\ gen' = 1 - gen

\* what the step adds to the record kept since the last handled loadstart
Since(kinds) ==
  IF ~isLoading' THEN {"idle"}
  ELSE IF "loadstart" \in kinds THEN {}
  ELSE sinceLoad \cup kinds

\* the second effect without its dependency list: it runs after every render
PlayingEffect_EveryRender(q, kinds) ==
  IF isPlaying'
    THEN LET r == AudioPlay(audio, pendingPlay)
         IN /\ audio' = r.a
            /\ pendingPlay' = r.pend
            /\ evq' = q \o r.ev
            /\ issued' = "play"
            /\ lastCmd' = "play"
            /\ sinceLoad' = Since(kinds)
    ELSE LET r == AudioPause(audio, pendingPlay)
         IN /\ audio' = r.a
            /\ pendingPlay' = r.pend
            /\ evq' = q \o r.ev
            /\ issued' = "pause"
            /\ lastCmd' = "pause"
            /\ sinceLoad' = Since(kinds \cup {"pause"})

\* useEffect(..., [isPlaying]) after a render that left the queue as q:
\* runs only when isPlaying changed, kinds are the events the step handled
PlayingEffect(q, kinds) ==
  IF isPlaying' = isPlaying
    THEN /\ audio' = audio
         /\ pendingPlay' = pendingPlay
         /\ evq' = q
         /\ issued' = "none"
         /\ lastCmd' = lastCmd
         /\ sinceLoad' = Since(kinds)
    ELSE IF isPlaying'
      THEN LET r == AudioPlay(audio, pendingPlay)
           IN /\ audio' = r.a
              /\ pendingPlay' = r.pend
              /\ evq' = q \o r.ev
              /\ issued' = "play"
              /\ lastCmd' = "play"
              /\ sinceLoad' = Since(kinds)
      ELSE LET r == AudioPause(audio, pendingPlay)
           IN /\ audio' = r.a
              /\ pendingPlay' = r.pend
              /\ evq' = q \o r.ev
              /\ issued' = "pause"
              /\ lastCmd' = "pause"
              /\ sinceLoad' = Since(kinds \cup {"pause"})

\* ---- the listeners of the first effect -------------------------------------
updateTime ==
  /\ currentTime' = audio.currentTime
  /\ UNCHANGED <<isPlaying, duration, volume, isLiked, isLoading>>

updateDuration ==
  /\ duration' = audio.duration
  /\ UNCHANGED <<isPlaying, currentTime, volume, isLiked, isLoading>>

\* an ended listener that is ignored while loading
handleEnded_UnlessLoading ==
  /\ isPlaying' = (isLoading /\ isPlaying)
  /\ UNCHANGED <<currentTime, duration, volume, isLiked, isLoading>>

handleEnded ==
  /\ isPlaying' = FALSE
  /\ UNCHANGED <<currentTime, duration, volume, isLiked, isLoading>>

handleLoadStart ==
  /\ isLoading' = TRUE
  /\ UNCHANGED <<isPlaying, currentTime, duration, volume, isLiked>>

\* a canplay listener that forgets to end the loading state
handleCanPlay_Forgets == UNCHANGED widget

handleCanPlay ==
  /\ isLoading' = FALSE
  /\ UNCHANGED <<isPlaying, currentTime, duration, volume, isLiked>>

Listener(kind) ==
  CASE kind = "timeupdate" -> updateTime
    [] kind = "loadedmetadata" -> updateDuration
    [] kind = "ended" -> handleEnded
    [] kind = "loadstart" -> handleLoadStart
    [] kind = "canplay" -> handleCanPlay

Bound(kind) == {l \in listeners : l[1] = kind}

\* the handle dispatches its oldest queued event to the listeners bound for it
Dispatch ==
  /\ phase = "mounted"
  /\ evq # <<>>
  /\ Head(evq) \in EventKinds
  /\ LET kind == Head(evq)
     IN /\ deliveries' = Cardinality(Bound(kind))
        /\ IF Bound(kind) # {} THEN Listener(kind) ELSE UNCHANGED widget
        /\ PlayingEffect(Tail(evq), IF Bound(kind) # {} THEN {kind} ELSE {})
        /\ readyFresh' = CASE kind = "canplay" /\ Bound(kind) # {} -> isLoading \/ readyFresh
                           [] kind = "loadstart" /\ Bound(kind) # {} -> FALSE
                           [] OTHER -> readyFresh
        /\ lastOp' = kind
  /\ lastArg' = 0
  /\ seekTo' = NaN
  /\ UNCHANGED <<phase, audioSrc, listeners, gen>>

\* a rejection handler that rolls is-playing back
PlayRejected_Rollback ==
  /\ phase = "mounted"
  /\ evq # <<>>
  /\ Head(evq) = "rejectplay"
  /\ evq' = Tail(evq)
  /\ isPlaying' = FALSE
  /\ lastOp' = "playRejected"
  /\ lastArg' = 0
  /\ issued' = "none"
  /\ seekTo' = NaN
  /\ deliveries' = 0
  /\ UNCHANGED <<phase, audioSrc, currentTime, duration, volume, isLiked,
                 isLoading, audio, pendingPlay, listeners, gen, lastCmd, sinceLoad,
                 readyFresh>>

\* audio.play().catch(console.error): the rejection of a play() promise
PlayRejected ==
  /\ phase = "mounted"
  /\ evq # <<>>
  /\ Head(evq) = "rejectplay"
  /\ evq' = Tail(evq)
  /\ lastOp' = "playRejected"
  /\ lastArg' = 0
  /\ issued' = "none"
  /\ seekTo' = NaN
  /\ deliveries' = 0
  /\ UNCHANGED <<phase, audioSrc, isPlaying, currentTime, duration, volume, isLiked,
                 isLoading, audio, pendingPlay, listeners, gen, lastCmd, sinceLoad,
                 readyFresh>>

\* ---- mounting, resource swap, unmounting ------------------------------------
\* the load algorithm of the handle for a new src: playback stops, pending play()
\* promises are rejected, the position returns to 0, queued event tasks are dropped
LoadEvents(a, pend, q) ==
  (IF pend > 0 \/ \E i \in 1..Len(q) : q[i] = "rejectplay" THEN <<"rejectplay">> ELSE <<>>)
  \o (IF a.currentTime # 0 THEN <<"timeupdate">> ELSE <<>>)
  \o <<"loadstart">>

\* first render: useState defaults, the <audio> element, then the three effects
Mount ==
  /\ phase # "mounted"
  /\ phase' = "mounted"
  /\ isPlaying' = FALSE
  /\ currentTime' = 0
  /\ duration' = 0
  /\ volume' = DefaultVolume
  /\ isLiked' = FALSE
  /\ isLoading' = FALSE
  /\ Subscribe
  /\ audio' = [NewElement EXCEPT !.volume = DefaultVolume]
  /\ pendingPlay' = 0
  /\ evq' = <<"loadstart">>
  /\ issued' = "pause"
  /\ lastCmd' = "pause"
  /\ lastOp' = "mount"
  /\ lastArg' = 0
  /\ seekTo' = NaN
  /\ deliveries' = 0
  /\ sinceLoad' = {"idle"}
  /\ readyFresh' = FALSE
  /\ audioSrc' = InitialSrc

\* the parent passes another audioSrc: the src attribute changes, the first
\* effect is cleaned up and run again, the other effects do not run
SwapSrc(s) ==
  /\ phase = "mounted"
  /\ s # audioSrc
  /\ audioSrc' = s
  /\ audio' = [audio EXCEPT !.readyState = "nothing", !.currentTime = 0,
                            !.duration = NaN, !.paused = TRUE]
  /\ pendingPlay' = 0
  /\ evq' = LoadEvents(audio, pendingPlay, evq)
  /\ Subscribe
  /\ lastOp' = "swap"
  /\ lastArg' = 0
  /\ issued' = "none"
  /\ seekTo' = NaN
  /\ deliveries' = 0
  /\ UNCHANGED <<phase, isPlaying, currentTime, duration, volume, isLiked, isLoading,
                 lastCmd, sinceLoad, readyFresh>>

\* unmount: the cleanup of the first effect runs; the state cells and the
\* element are discarded
Unmount ==
  /\ phase = "mounted"
  /\ phase' = "unmounted"
  /\ listeners' = Cleanup(listeners, gen)
  /\ isPlaying' = FALSE
  /\ currentTime' = 0
  /\ duration' = 0
  /\ volume' = DefaultVolume
  /\ isLiked' = FALSE
  /\ isLoading' = FALSE
  /\ audio' = NewElement
  /\ pendingPlay' = 0
  /\ evq' = <<>>
  /\ lastOp' = "unmount"
  /\ lastArg' = 0
  /\ issued' = "none"
  /\ lastCmd' = "none"
  /\ seekTo' = NaN
  /\ deliveries' = 0
  /\ sinceLoad' = {"idle"}
  /\ readyFresh' = FALSE
  /\ gen' = 0
  /\ UNCHANGED audioSrc

\* ---- the handlers of the controls -------------------------------------------
\* a toggle without the is-loading guard
handlePlayPause_NoGuard ==
  /\ phase = "mounted"
  /\ isPlaying' = ~isPlaying
  /\ UNCHANGED <<currentTime, duration, volume, isLiked, isLoading>>
  /\ PlayingEffect(evq, {})
  /\ Len(evq') <= MaxQueue
  /\ readyFresh' = FALSE
  /\ lastOp' = "playPause"
  /\ lastArg' = 0
  /\ seekTo' = NaN
  /\ deliveries' = 0
  /\ UNCHANGED <<phase, audioSrc, listeners, gen>>

handlePlayPause ==
  /\ phase = "mounted"
  /\ IF isLoading
       THEN UNCHANGED widget
       ELSE /\ isPlaying' = ~isPlaying
            /\ UNCHANGED <<currentTime, duration, volume, isLiked, isLoading>>
  /\ PlayingEffect(evq, {})
  /\ Len(evq') <= MaxQueue
  /\ readyFresh' = FALSE
  /\ lastOp' = "playPause"
  /\ lastArg' = 0
  /\ seekTo' = NaN
  /\ deliveries' = 0
  /\ UNCHANGED <<phase, audioSrc, listeners, gen>>

\* the fraction truncated before the multiplication
NewTime_Truncated(x, width, dur) == (x \div width) * dur

\* (x / width) * duration
NewTime(x, width, dur) == (x * dur) \div width

handleProgressClick(x) ==
  /\ phase = "mounted"
  /\ IF duration <= 0
       THEN /\ UNCHANGED <<widget, audio, evq>>
            /\ seekTo' = NaN
       ELSE LET newTime == NewTime(x, Width, duration)
                r == SetCurrentTime(audio, newTime)
            IN /\ audio' = r.a
               /\ evq' = evq \o r.ev
               /\ seekTo' = newTime
               /\ currentTime' = newTime
               /\ UNCHANGED <<isPlaying, duration, volume, isLiked, isLoading>>
  /\ Len(evq') <= MaxQueue
  /\ lastOp' = "click"
  /\ lastArg' = x
  /\ issued' = "none"
  /\ deliveries' = 0
  /\ UNCHANGED <<phase, audioSrc, pendingPlay, listeners, gen, lastCmd, sinceLoad,
                 readyFresh>>

\* setVolume(parseInt(e.target.value)), then useEffect(..., [volume])
\* audio.volume = volume / 100 is kept in hundredths
handleVolumeChange(v) ==
  /\ phase = "mounted"
  /\ volume' = v
  /\ audio' = [audio EXCEPT !.volume = volume']
  /\ lastOp' = "volume"
  /\ lastArg' = 0
  /\ issued' = "none"
  /\ seekTo' = NaN
  /\ deliveries' = 0
  /\ UNCHANGED <<phase, audioSrc, isPlaying, currentTime, duration, isLiked, isLoading,
                 pendingPlay, evq, listeners, gen, lastCmd, sinceLoad, readyFresh>>

\* onClick={() => setIsLiked(!isLiked)}
toggleLike ==
  /\ phase = "mounted"
  /\ isLiked' = ~isLiked
  /\ lastOp' = "like"
  /\ lastArg' = 0
  /\ issued' = "none"
  /\ seekTo' = NaN
  /\ deliveries' = 0
  /\ UNCHANGED <<phase, audioSrc, isPlaying, currentTime, duration, volume, isLoading,
                 audio, pendingPlay, evq, listeners, gen, lastCmd, sinceLoad, readyFresh>>

SkipBackTarget(pos) == Max(0, pos - SkipSeconds)

\* a skip forward that is not clamped to the duration
SkipForwardTarget_NoClamp(pos, dur) == pos + SkipSeconds

SkipForwardTarget(pos, dur) == Min(dur, pos + SkipSeconds)

\* a skip button: assigns target to audio.currentTime, the widget state is untouched
Skip(op, target) ==
  /\ phase = "mounted"
  /\ LET r == SetCurrentTime(audio, target)
     IN /\ audio' = r.a
        /\ evq' = evq \o r.ev
  /\ Len(evq') <= MaxQueue
  /\ seekTo' = target
  /\ lastOp' = op
  /\ lastArg' = 0
  /\ issued' = "none"
  /\ deliveries' = 0
  /\ UNCHANGED <<phase, audioSrc, isPlaying, currentTime, duration, volume, isLiked,
                 isLoading, pendingPlay, listeners, gen, lastCmd, sinceLoad, readyFresh>>

handleSkipBack == Skip("skipBack", SkipBackTarget(audio.currentTime))

handleSkipForward == Skip("skipForward", SkipForwardTarget(audio.currentTime, duration))

\* ---- the handle's own progress ----------------------------------------------
EngineStep(op) ==
  /\ phase = "mounted"
  /\ Len(evq') <= MaxQueue
  /\ lastOp' = op
  /\ lastArg' = 0
  /\ issued' = "none"
  /\ seekTo' = NaN
  /\ deliveries' = 0
  /\ UNCHANGED <<phase, audioSrc, isPlaying, currentTime, duration, volume, isLiked,
                 isLoading, listeners, gen, lastCmd, sinceLoad, readyFresh>>

\* the metadata of the resource arrives: the duration becomes known and the
\* position asked for meanwhile is sought, clamped to the resource
MetadataLoaded ==
  /\ audio.readyState = "nothing"
  /\ LET d == DurationOf(audioSrc)
         c == Max(0, Min(audio.currentTime, d))
     IN /\ audio' = [audio EXCEPT !.readyState = "metadata", !.duration = d,
                                  !.currentTime = c,
                                  !.paused = IF c = d THEN TRUE ELSE audio.paused]
        /\ evq' = evq \o <<"loadedmetadata">>
                      \o (IF audio.currentTime # 0 THEN SeekEvents(c, d) ELSE <<>>)
  /\ pendingPlay' = pendingPlay
  /\ EngineStep("metadataLoaded")

\* enough data to play: pending play() promises resolve when not paused
CanPlay ==
  /\ audio.readyState = "metadata"
  /\ audio' = [audio EXCEPT !.readyState = "future"]
  /\ evq' = evq \o <<"canplay">>
  /\ pendingPlay' = IF audio.paused THEN pendingPlay ELSE 0
  /\ EngineStep("engineCanPlay")

\* one second of playback; every queued event is dispatched within the second
Tick ==
  /\ audio.readyState = "future"
  /\ ~audio.paused
  /\ audio.currentTime < audio.duration
  /\ evq = <<>>
  /\ LET t == audio.currentTime + 1
     IN /\ audio' = [audio EXCEPT !.currentTime = t,
                                  !.paused = (t = audio.duration)]
        /\ evq' = SeekEvents(t, audio.duration)
  /\ pendingPlay' = pendingPlay
  /\ EngineStep("tick")

\* ---- the specification -------------------------------------------------------
Init ==
  /\ phase = "init"
  /\ audioSrc = InitialSrc
  /\ isPlaying = FALSE
  /\ currentTime = 0
  /\ duration = 0
  /\ volume = DefaultVolume
  /\ isLiked = FALSE
  /\ isLoading = FALSE
  /\ audio = NewElement
  /\ pendingPlay = 0
  /\ evq = <<>>
  /\ listeners = {}
  /\ gen = 0
  /\ lastOp = "none"
  /\ lastArg = 0
  /\ issued = "none"
  /\ lastCmd = "none"
  /\ seekTo = NaN
  /\ deliveries = 0
  /\ sinceLoad = {"idle"}
  /\ readyFresh = FALSE

Next ==
  \/ Mount
  \/ \E s \in Srcs : SwapSrc(s)
  \/ Unmount
  \/ Dispatch
  \/ PlayRejected
  \/ handlePlayPause
  \/ \E x \in 0..Width : handleProgressClick(x)
  \/ \E v \in Volumes : handleVolumeChange(v)
  \/ toggleLike
  \/ handleSkipBack
  \/ handleSkipForward
  \/ MetadataLoaded
  \/ CanPlay
  \/ Tick

Spec == Init /\ [][Next]_vars

TypeOK ==
  /\ phase \in {"init", "mounted", "unmounted"}
  /\ isPlaying \in BOOLEAN /\ isLoading \in BOOLEAN /\ isLiked \in BOOLEAN
  /\ volume \in Volumes
  /\ Len(evq) <= MaxQueue + 2

\* ---- the claims ---------------------------------------------------------------
Others == <<currentTime, duration, volume, isLiked, isLoading>>

\* C1: the play/pause toggle leaves is-playing unchanged whenever is-loading is
\* true and flips it whenever is-loading is false.
C1_ToggleRespectsLoading ==
  [][lastOp' = "playPause" =>
       IF isLoading THEN isPlaying' = isPlaying ELSE isPlaying' = ~isPlaying]_vars

\* the toggle was operated while loading and playing
C1_Witness == lastOp = "playPause" /\ isLoading /\ isPlaying

\* C2: whenever the duration is known (duration > 0) the widget's current
\* position lies in [0, duration].
C2_PositionWithinDuration ==
  duration > 0 => (0 <= currentTime /\ currentTime <= duration)

\* C3 as stated: in every state with is-loading true a load-start has been handled
\* and no can-play, ended or pause has occurred since it.
C3_LoadingEndsOnReadyEndedPause ==
  isLoading => sinceLoad \cap {"idle", "canplay", "ended", "pause"} = {}

\* C3 as amended: in every state with is-loading true a load-start has been
\* handled and no can-play has been handled since it.
C3_LoadingEndsOnCanPlay ==
  isLoading => sinceLoad \cap {"idle", "canplay"} = {}

\* still loading although an ended event was handled after the load-start
C3_Witness == isLoading /\ "ended" \in sinceLoad

\* C4: from the can-play that ends the loading state until the toggle is next
\* operated, is-playing is false.
C4_ReadyMeansPaused == readyFresh => ~isPlaying

\* C5: at most one listener per event kind is attached, an event is handled at
\* most once, and no listener remains attached after unmount.
C5_ListenersScoped ==
  /\ \A k \in EventKinds : Cardinality(Bound(k)) <= 1
  /\ deliveries <= 1
  /\ phase = "unmounted" => listeners = {}

\* an event was handled, exactly once, by the listeners bound after a swap
C5_Witness == phase = "mounted" /\ gen = 0 /\ deliveries = 1

\* C6: a rejected play command changes no widget state (is-playing is not rolled
\* back), issues no command and leaves the handle alone.
C6_RejectionChangesNothing ==
  [][lastOp' = "playRejected" =>
       /\ isPlaying' = isPlaying
       /\ Others' = Others
       /\ issued' = "none"
       /\ audio' = audio
       /\ pendingPlay' = pendingPlay]_vars

\* a play command was rejected while is-playing is true
C6_Witness == lastOp = "playRejected" /\ isPlaying

\* C7: skip back assigns max(0, position - 10) and skip forward assigns
\* min(duration, position + 10) to the handle's position, which then lies in
\* [0, duration]; the handle keeps the value unless its own duration is smaller.
C7_SkipClamped ==
  [][/\ lastOp' = "skipBack" =>
          seekTo' = (IF audio.currentTime < SkipSeconds THEN 0
                     ELSE audio.currentTime - SkipSeconds)
     /\ lastOp' = "skipForward" =>
          seekTo' = (IF audio.currentTime + SkipSeconds > duration THEN duration
                     ELSE audio.currentTime + SkipSeconds)
     /\ lastOp' \in {"skipBack", "skipForward"} =>
          /\ 0 <= audio'.currentTime /\ audio'.currentTime <= duration
          /\ audio'.currentTime = (IF audio.readyState # "nothing" /\ audio.duration < seekTo'
                                     THEN audio.duration ELSE seekTo')
          /\ widget' = widget]_vars

\* skip forward on the long track was clamped to the duration
C7_Witness ==
  /\ lastOp = "skipForward"
  /\ duration > SkipSeconds
  /\ seekTo = duration
  /\ audio.currentTime = duration

\* C8: a handled ended event makes is-playing false whatever it was and whatever
\* is-loading is, and changes no other widget field.
C8_EndedStopsPlaying ==
  [][(lastOp' = "ended" /\ deliveries' >= 1) =>
       (isPlaying' = FALSE /\ Others' = Others)]_vars

\* an ended event stopped playback (a pause command followed) while loading
C8_Witness == lastOp = "ended" /\ issued = "pause" /\ isLoading

\* C9: a click at offset x with a known duration assigns x / width * duration to
\* the handle's position and to the widget's current position; with an unknown
\* duration the click changes nothing.
C9_SeekByClick ==
  [][lastOp' = "click" =>
       IF duration > 0
         THEN /\ seekTo' * Width = lastArg' * duration
              /\ currentTime' = seekTo'
              /\ audio'.currentTime = (IF audio.readyState # "nothing" /\ audio.duration < seekTo'
                                         THEN audio.duration ELSE seekTo')
              /\ UNCHANGED <<isPlaying, duration, volume, isLiked, isLoading>>
         ELSE /\ seekTo' = NaN
              /\ UNCHANGED <<widget, audio, evq>>]_vars

\* a click in the middle of the track moved the position
C9_Witness == lastOp = "click" /\ lastArg = 1 /\ seekTo > 0 /\ currentTime = seekTo

\* C10: a play or pause command is issued only at mount or when is-playing
\* changes, it matches the new value, the last command sent is play exactly when
\* is-playing is true, and the other events issue no command.
C10_CommandsFollowIsPlaying ==
  /\ [](phase = "mounted" => (lastCmd = "play" <=> isPlaying))
  /\ [][/\ issued' # "none" =>
             /\ lastOp' = "mount" \/ isPlaying' # isPlaying
             /\ issued' = (IF isPlaying' THEN "play" ELSE "pause")
             /\ lastCmd' = issued'
        /\ issued' = "none" => lastCmd' = lastCmd \/ lastOp' = "unmount"
        /\ (phase = "mounted" /\ phase' = "mounted" /\ isPlaying' # isPlaying) =>
             issued' # "none"
        /\ lastOp' \in {"timeupdate", "loadedmetadata", "loadstart", "canplay", "volume",
                        "like", "skipBack", "skipForward", "click", "swap"} =>
             issued' = "none"]_vars

\* the resource was swapped while playing and no command was sent
C10_Witness == lastOp = "swap" /\ isPlaying /\ lastCmd = "play" /\ issued = "none"

====
